---- MODULE Spec2Model ----
(***************************************************************************)
(* telepingbot: an HTTP API that pings Telegram bots.  A request task      *)
(* (api.rs ping) probes a bot through send_start (superbot.rs), which      *)
(* pushes a PingedBot on the global list PINGED_BOTS (main.rs), sends      *)
(* "/start" and sleeps two seconds; the listener (superbot.rs handler)     *)
(* spawns one task per update, which marks the sender's records; the       *)
(* request task then reads the list with check.                           *)
(*                                                                         *)
(* Time is chrono's Unix timestamp, in whole seconds.  Strings are         *)
(* sequences of one-character strings.                                     *)
(***************************************************************************)
EXTENDS Integers, Sequences, FiniteSets, TLC

\* ------------------------------------------------------------------ bounds
\* Number of HTTP requests of a behaviour.
NumQueries == 2
\* Number of updates the Telegram client delivers to the listener.
MaxUpdates == 1
\* The clock runs 0 .. QuietFrom, then QuietTo .. MaxTime: no task runs in
\* the seconds between QuietFrom and QuietTo.
QuietFrom == 2
QuietTo == 60
MaxTime == 61

\* ------------------------------------------------------- program constants
\* main.rs:42  chrono::Utc::now().timestamp() - 60
DeadAfter == 60
\* superbot.rs:104  Duration::from_secs(2)
SleepSecs == 2
\* api.rs StatusCode::{OK, BAD_REQUEST, FORBIDDEN, NOT_FOUND, INTERNAL_SERVER_ERROR}
OK == 200
BAD_REQUEST == 400
FORBIDDEN == 403
NOT_FOUND == 404
INTERNAL_SERVER_ERROR == 500

Queries == 1..NumQueries

\* ------------------------------------------------------------------ strings
\* char::to_lowercase on the letters the model uses
ToLowerChar(c) ==
  CASE c = "A" -> "a"
    [] c = "B" -> "b"
    [] c = "O" -> "o"
    [] c = "T" -> "t"
    [] c = "X" -> "x"
    [] OTHER -> c

\* str::to_lowercase
to_lowercase(s) == [i \in DOMAIN s |-> ToLowerChar(s[i])]

IsWhitespace(c) == c = " "

RECURSIVE trim_start(_)
trim_start(s) ==
  IF s = <<>> THEN s
  ELSE IF IsWhitespace(Head(s)) THEN trim_start(Tail(s)) ELSE s

RECURSIVE trim_end(_)
trim_end(s) ==
  IF s = <<>> THEN s
  ELSE IF IsWhitespace(s[Len(s)]) THEN trim_end(SubSeq(s, 1, Len(s) - 1)) ELSE s

\* str::trim
trim(s) == trim_end(trim_start(s))

\* str::trim_start_matches(char): strips every leading occurrence
RECURSIVE trim_start_matches(_, _)
trim_start_matches(s, c) ==
  IF s = <<>> THEN s
  ELSE IF Head(s) = c THEN trim_start_matches(Tail(s), c) ELSE s

starts_with(s, c) == s # <<>> /\ Head(s) = c

ends_with(s, suffix) ==
  /\ Len(s) >= Len(suffix)
  /\ SubSeq(s, Len(s) - Len(suffix) + 1, Len(s)) = suffix

contains(list, x) == \E i \in DOMAIN list : list[i] = x

\* sha256::digest: a deterministic, collision-free function of the text
digest(s) == <<"sha256">> \o s

\* ------------------------------------------------------------ configuration
\* bots.txt and tokens.txt, line by line
BotsTxt == << <<"@", "A", "b", "o", "t", " ">>, <<"@", "b", "o", "t">> >>
TokensTxt == << <<"k", "1", " ">> >>

\* main.rs: lines().map(|b| b.trim().to_owned())
ReadLines(file) == [i \in DOMAIN file |-> trim(file[i])]

\* main.rs: the server starts only when every bot line starts with '@' and
\* ends, lower-cased, with "bot"
BotsValid(bots) ==
  ~ \E i \in DOMAIN bots :
      \/ ~ starts_with(bots[i], "@")
      \/ ~ ends_with(to_lowercase(bots[i]), <<"b", "o", "t">>)

\* AppState::new
AppState_new(bots, tokens) ==
  [ bots |-> [i \in DOMAIN bots |->
                to_lowercase(trim(trim_start_matches(bots[i], "@")))],
    tokens |-> [i \in DOMAIN tokens |-> digest(trim(tokens[i]))] ]

app_state == AppState_new(ReadLines(BotsTxt), ReadLines(TokensTxt))

\* The usernames that exist on Telegram, with the chat id of each:
\* what client.resolve_username answers with when it answers Some(chat).
Directory == { [username |-> <<"a", "b", "o", "t">>, id |-> 1],
               [username |-> <<"b", "o", "t">>, id |-> 2] }

\* The bot_username path parameters of the requests
Usernames == { <<"A", "B", "o", "t">>, <<"b", "o", "t">>, <<"x", "b", "o", "t">> }

\* The Authorization header of a request: absent, not visible ASCII
\* (HeaderValue::to_str fails), or a text
Headers == { [kind |-> "missing", value |-> <<>>],
             [kind |-> "opaque", value |-> <<>>],
             [kind |-> "text", value |-> <<" ", "k", "1">>],
             [kind |-> "text", value |-> <<"k", "2">>] }

\* The updates of the Telegram client: a new message with or without a
\* sender, or another kind of update.  sender 0 stands for None.
Updates == { [kind |-> "NewMessage", sender |-> 1],
             [kind |-> "NewMessage", sender |-> 2],
             [kind |-> "NewMessage", sender |-> 0],
             [kind |-> "Other", sender |-> 1] }


\* ------------------------------------------------------------------- state
VARIABLES
  now,          \* chrono::Utc::now().timestamp()
  PINGED_BOTS,  \* main.rs: the Mutex<Vec<PingedBot>>
  origin,       \* history: origin[i] is the request whose send_start pushed PINGED_BOTS[i]
  pc,           \* where each request's task stands
  req,          \* each request: its Authorization header and bot_username
                \* parameter, each set where the code first reads it
  telegram_id,  \* send_start's telegram_id, 0 before resolve_username answered
  deadline,     \* the timestamp at which the request's sleep elapses, -1 when it never slept
  dead_time,    \* clear_outdead's dead_time, read before it takes the lock
  res,          \* each request's Response: status_code (0 for None) and body
  hist,         \* history of each request: calls made, marks seen, timestamps
  loop,         \* superbot.rs handler: "select", "stalled" or "exited"
  tasks,        \* the spawned update_handler tasks that have not run, per update
  received,     \* number of updates next_update has yielded
  ctrl_c,       \* whether the process has received the interrupt signal
  lock          \* the Mutex of PINGED_BOTS: the task holding it and the call it locked in

vars == << now, PINGED_BOTS, origin, pc, req, telegram_id, deadline, dead_time,
           res, hist, loop, tasks, received, ctrl_c, lock >>

reqVars == << pc, req, telegram_id, deadline, dead_time, res, hist >>
listenerVars == << loop, tasks, received, ctrl_c >>

\* the Mutex unlocked, and locked by task t in the call named at
Free == [holder |-> 0, at |-> ""]
Held(t, at) == [holder |-> t, at |-> at]

\* the task of an update: the requests' tasks are 1 .. NumQueries
UpdateTask(u) == NumQueries + 1 + u.sender

NoRequest == [header |-> [kind |-> "missing", value |-> <<>>], bot_username |-> <<>>]

NoHist == [ resolve |-> 0, add_new |-> 0, send |-> 0, sleep |-> 0, check |-> 0,
            failed |-> "", found |-> FALSE, pre |-> FALSE, marks |-> {},
            pingAt |-> -1, staleAtCall |-> FALSE, youngAtScan |-> FALSE ]

Init ==
  /\ BotsValid(ReadLines(BotsTxt))
  /\ now = 0
  /\ PINGED_BOTS = <<>>
  /\ origin = <<>>
  /\ pc = [q \in Queries |-> "new"]
  /\ req = [q \in Queries |-> NoRequest]
  /\ telegram_id = [q \in Queries |-> 0]
  /\ deadline = [q \in Queries |-> -1]
  /\ dead_time = [q \in Queries |-> -1]
  /\ res = [q \in Queries |-> [status_code |-> 0, body |-> <<>>]]
  /\ hist = [q \in Queries |-> NoHist]
  /\ loop = "select"
  /\ tasks = [u \in Updates |-> 0]
  /\ received = 0
  /\ ctrl_c = FALSE
  /\ lock = Free

\* ----------------------------------------------------------------- registry
\* PingedBot::new
PingedBot_new(id, t) == [telegram_id |-> id, ping_in |-> t, is_response |-> FALSE]

\* new_res building the marked record anew, with the current timestamp
PingedBot_new_res_restamp(b) == [b EXCEPT !.is_response = TRUE, !.ping_in = now]

\* PingedBot::new_res
PingedBot_new_res(b) == [b EXCEPT !.is_response = TRUE]

\* the filter keeping the record that is exactly DeadAfter seconds old
Alive_inclusive(b, dt) == b.ping_in >= dt

\* the filter with no record ever dead
Alive_always(b, dt) == TRUE

\* clear_outdead's filter: the records kept under dead_time
Alive(b, dt) == b.ping_in > dt

\* PingList::clear_outdead, the part under the lock
clear_outdead(bots, dt) == SelectSeq(bots, LAMBDA b : Alive(b, dt))

\* add_new restarting the agent's older records
add_new_restart(bots, id, t) ==
  Append([i \in DOMAIN bots |->
            IF bots[i].telegram_id = id
              THEN [bots[i] EXCEPT !.is_response = FALSE] ELSE bots[i]],
         PingedBot_new(id, t))

\* PingList::add_new
add_new(bots, id, t) == Append(bots, PingedBot_new(id, t))

\* PingList::check, the scan under the second lock
check(bots, id) ==
  \E i \in DOMAIN bots : bots[i].telegram_id = id /\ bots[i].is_response

\* new_res stopping at the first record of the sender
new_res_first(bots, id) ==
  [i \in DOMAIN bots |->
     IF /\ bots[i].telegram_id = id
        /\ \A j \in 1..(i - 1) : bots[j].telegram_id # id
       THEN PingedBot_new_res(bots[i]) ELSE bots[i]]

\* PingList::new_res
new_res(bots, id) ==
  [i \in DOMAIN bots |->
     IF bots[i].telegram_id = id THEN PingedBot_new_res(bots[i]) ELSE bots[i]]

\* history: the origins of the records clear_outdead keeps, in order
KeptIdx(bots, dt) == { i \in DOMAIN bots : Alive(bots[i], dt) }
Nth(I, k) == CHOOSE i \in I : Cardinality({ j \in I : j < i }) = k - 1
KeptOrigin(bots, org, dt) ==
  [k \in 1..Cardinality(KeptIdx(bots, dt)) |-> org[Nth(KeptIdx(bots, dt), k)]]

\* ------------------------------------------------------------------ api.rs
\* StatusCode::is_success
is_success(status_code) == status_code >= 200 /\ status_code < 300

\* MessageSchema::new
MessageSchema_new(message) ==
  [message |-> message, status |-> TRUE, status_code |-> OK]

\* code leaving status as new set it
code_keeps_status(msg, status_code) == [msg EXCEPT !.status_code = status_code]

\* MessageSchema::code
code(msg, status_code) ==
  [msg EXCEPT !.status = is_success(status_code), !.status_code = status_code]

\* write_json_body: status_code is #[serde(skip)]
write_json_body(r, msg) ==
  [r EXCEPT !.body = Append(@, [message |-> msg.message, status |-> msg.status])]

\* ping, lines 104-105
Respond(r, msg) == write_json_body([r EXCEPT !.status_code = msg.status_code], msg)

\* auth: whether the header passes
TokenPasses(header) ==
  /\ header.kind = "text"
  /\ contains(app_state.tokens, digest(trim(header.value)))

\* auth: the message written for a header that does not pass
AuthRefusal(header) ==
  IF header.kind = "missing"
    THEN code(MessageSchema_new("Missing Authorization header"), FORBIDDEN)
  ELSE IF header.kind = "opaque"
    THEN code(MessageSchema_new("Invalid token value"), BAD_REQUEST)
  ELSE code(MessageSchema_new("Unauthorized"), FORBIDDEN)

\* ping matching the allow-list by suffix
InBots_suffix(bot_username) ==
  \E i \in DOMAIN app_state.bots : ends_with(bot_username, app_state.bots[i])

\* ping, line 90
InBots(bot_username) == contains(app_state.bots, bot_username)

MsgNotAuthorized ==
  code(MessageSchema_new("Is not authorized to check the status of this bot"), BAD_REQUEST)
MsgAlive == MessageSchema_new("Alive")
MsgNoResponse == code(MessageSchema_new("No response from the bot"), NOT_FOUND)
MsgCantSend == code(MessageSchema_new("Cant send to the bot"), INTERNAL_SERVER_ERROR)

\* ping, lines 96-100
PingAnswer(found) == IF found THEN MsgAlive ELSE MsgNoResponse

\* auth with the skip_rest of the to_str branch forgotten
AuthSkipsRest_opaque_falls_through(header) ==
  ~ TokenPasses(header) /\ header.kind # "opaque"

\* auth: ctrl.skip_rest() is reached on every path but the early return
AuthSkipsRest(header) == ~ TokenPasses(header)

\* ------------------------------------------------------------------- mutex
\* check keeping the guard of clear_outdead while it locks for the scan
CriticalSection_guard_kept(t, at) ==
  /\ lock \in {Free, Held(t, at)}
  /\ lock' = IF at = "evict" THEN Held(t, at) ELSE Free

\* One call on PINGED_BOTS from self.lock() to the drop of the guard: the
\* task takes the Mutex, unless an earlier step of it did, and unlocks it.
CriticalSection(t, at) ==
  /\ lock \in {Free, Held(t, at)}
  /\ lock' = Free

\* ---------------------------------------------------------------- requests
\* ping's last two lines; the task's locals are dropped with it
Finish(q, msg) ==
  /\ res' = [res EXCEPT ![q] = Respond(res[q], msg)]
  /\ pc' = [pc EXCEPT ![q] = "done"]
  /\ telegram_id' = [telegram_id EXCEPT ![q] = 0]
  /\ deadline' = [deadline EXCEPT ![q] = -1]
  /\ dead_time' = [dead_time EXCEPT ![q] = -1]

\* A request arrives and runs the auth hoop (api.rs 130-161).
auth(q) ==
  /\ pc[q] = "new"
  /\ \A p \in Queries : p < q => pc[p] # "new"
  /\ \E header \in Headers :
       /\ req' = [req EXCEPT ![q].header = header]
       /\ res' = [res EXCEPT ![q] =
                    IF TokenPasses(header) THEN res[q]
                    ELSE write_json_body(res[q], AuthRefusal(header))]
       /\ pc' = [pc EXCEPT ![q] =
                    IF AuthSkipsRest(header) THEN "done" ELSE "ping"]
  /\ UNCHANGED << now, PINGED_BOTS, origin, telegram_id, deadline, dead_time,
                  hist, listenerVars, lock >>

\* ping up to its first await (api.rs 87-94): the allow-list test, then
\* send_start calls resolve_username.
ping(q) ==
  /\ pc[q] = "ping"
  /\ \E param \in Usernames :
       LET bot_username == to_lowercase(param) IN
       /\ req' = [req EXCEPT ![q].bot_username = param]
       /\ IF ~ InBots(bot_username)
            THEN /\ Finish(q, MsgNotAuthorized)
                 /\ hist' = hist
            ELSE /\ pc' = [pc EXCEPT ![q] = "resolve"]
                 /\ hist' = [hist EXCEPT ![q].resolve = @ + 1]
                 /\ UNCHANGED << res, telegram_id, deadline, dead_time >>
  /\ UNCHANGED << now, PINGED_BOTS, origin, listenerVars, lock >>

\* send_start calling send_message without add_new before it
resolve_some_unregistered(q) ==
  /\ pc[q] = "resolve"
  /\ \E d \in Directory :
       /\ d.username = to_lowercase(req[q].bot_username)
       /\ telegram_id' = [telegram_id EXCEPT ![q] = d.id]
       /\ hist' = [hist EXCEPT ![q].send = @ + 1,
                               ![q].pingAt = now,
                               ![q].pre = check(PINGED_BOTS, d.id)]
  /\ pc' = [pc EXCEPT ![q] = "send"]
  /\ UNCHANGED << now, PINGED_BOTS, origin, req, deadline, dead_time, res,
                  listenerVars, lock >>

\* resolve_username answers Some(chat): send_start pushes the record and
\* calls send_message (superbot.rs 99-102).
resolve_some(q) ==
  /\ pc[q] = "resolve"
  /\ \E d \in Directory :
       /\ d.username = to_lowercase(req[q].bot_username)
       /\ telegram_id' = [telegram_id EXCEPT ![q] = d.id]
       /\ hist' = [hist EXCEPT ![q].add_new = @ + 1,
                               ![q].send = @ + 1,
                               ![q].pingAt = now,
                               ![q].pre = check(PINGED_BOTS, d.id)]
       /\ PINGED_BOTS' = add_new(PINGED_BOTS, d.id, now)
  /\ origin' = Append(origin, q)
  /\ pc' = [pc EXCEPT ![q] = "send"]
  /\ UNCHANGED << now, req, deadline, dead_time, res, listenerVars >>
  /\ CriticalSection(q, "resolve")

\* resolve_username answers None or an error: send_start returns Err and
\* ping answers 500 (superbot.rs 99, 107; api.rs 102).
resolve_fails(q) ==
  /\ pc[q] = "resolve"
  /\ lock # Held(q, "resolve")
  /\ Finish(q, MsgCantSend)
  /\ hist' = [hist EXCEPT ![q].failed = "resolve"]
  /\ UNCHANGED << now, PINGED_BOTS, origin, req, listenerVars, lock >>

\* send_message answers Ok: the sleep starts (superbot.rs 102-104).
send_ok(q) ==
  /\ pc[q] = "send"
  /\ deadline' = [deadline EXCEPT ![q] = now + SleepSecs]
  /\ hist' = [hist EXCEPT ![q].sleep = @ + 1]
  /\ pc' = [pc EXCEPT ![q] = "sleep"]
  /\ UNCHANGED << now, PINGED_BOTS, origin, req, telegram_id, dead_time, res,
                  listenerVars, lock >>

\* send_message's error dropped instead of returned with `?`: the sleep starts
send_fails_ignored(q) ==
  /\ pc[q] = "send"
  /\ deadline' = [deadline EXCEPT ![q] = now + SleepSecs]
  /\ hist' = [hist EXCEPT ![q].failed = "send", ![q].sleep = @ + 1]
  /\ pc' = [pc EXCEPT ![q] = "sleep"]
  /\ UNCHANGED << now, PINGED_BOTS, origin, req, telegram_id, dead_time, res,
                  listenerVars, lock >>

\* send_message answers an error: send_start returns Err (superbot.rs 102).
send_fails(q) ==
  /\ pc[q] = "send"
  /\ Finish(q, MsgCantSend)
  /\ hist' = [hist EXCEPT ![q].failed = "send", ![q].pingAt = -1]
  /\ UNCHANGED << now, PINGED_BOTS, origin, req, listenerVars, lock >>

\* The sleep has elapsed and the task runs again: send_start returns Ok,
\* check calls clear_outdead, which reads the clock (superbot.rs 104-105,
\* api.rs 96, main.rs 58, 42).
wake(q) ==
  /\ pc[q] = "sleep"
  /\ now >= deadline[q]
  /\ dead_time' = [dead_time EXCEPT ![q] = now - DeadAfter]
  /\ hist' = [hist EXCEPT ![q].check = @ + 1,
                          ![q].staleAtCall = now - hist[q].pingAt > DeadAfter]
  /\ pc' = [pc EXCEPT ![q] = "evict"]
  /\ UNCHANGED << now, PINGED_BOTS, origin, req, telegram_id, deadline, res,
                  listenerVars, lock >>

\* clear_outdead under its lock (main.rs 43-48).
evict(q) ==
  /\ pc[q] = "evict"
  /\ PINGED_BOTS' = clear_outdead(PINGED_BOTS, dead_time[q])
  /\ origin' = KeptOrigin(PINGED_BOTS, origin, dead_time[q])
  /\ pc' = [pc EXCEPT ![q] = "scan"]
  /\ UNCHANGED << now, req, telegram_id, deadline, dead_time, res, hist,
                  listenerVars >>
  /\ CriticalSection(q, "evict")

\* check's scan under its own lock, and ping's answer (main.rs 59-65,
\* api.rs 96-105).
scan(q) ==
  /\ pc[q] = "scan"
  /\ Finish(q, PingAnswer(check(PINGED_BOTS, telegram_id[q])))
  /\ hist' = [hist EXCEPT ![q].found = check(PINGED_BOTS, telegram_id[q]),
                          ![q].youngAtScan = now - hist[q].pingAt < DeadAfter,
                          ![q].pingAt = -1]
  /\ UNCHANGED << now, PINGED_BOTS, origin, req, listenerVars >>
  /\ CriticalSection(q, "scan")

\* ---------------------------------------------------------------- listener
\* handler's select yields Ok(Some(update)) and spawns its task
\* (superbot.rs 88-92).
next_update(u) ==
  /\ loop = "select"
  /\ received < MaxUpdates
  /\ received' = received + 1
  /\ tasks' = [tasks EXCEPT ![u] = @ + 1]
  /\ UNCHANGED << now, PINGED_BOTS, origin, reqVars, loop, ctrl_c, lock >>

\* handler leaving its loop when next_update yields Err or Ok(None)
next_update_refuted_exits ==
  /\ loop = "select"
  /\ loop' = "exited"
  /\ UNCHANGED << now, PINGED_BOTS, origin, reqVars, tasks, received, ctrl_c, lock >>

\* next_update yields Err or Ok(None): the pattern does not match, select!
\* disables the branch and keeps waiting for ctrl_c alone (superbot.rs 84-88).
next_update_refuted ==
  /\ loop = "select"
  /\ loop' = "stalled"
  /\ UNCHANGED << now, PINGED_BOTS, origin, reqVars, tasks, received, ctrl_c, lock >>

\* The process receives the interrupt signal.
interrupt ==
  /\ ~ ctrl_c
  /\ ctrl_c' = TRUE
  /\ UNCHANGED << now, PINGED_BOTS, origin, reqVars, loop, tasks, received, lock >>

\* handler's ctrl_c branch: break (superbot.rs 85-87).
break ==
  /\ loop \in {"select", "stalled"}
  /\ ctrl_c
  /\ loop' = "exited"
  /\ UNCHANGED << now, PINGED_BOTS, origin, reqVars, tasks, received, ctrl_c, lock >>

\* self.lock() of add_new, clear_outdead or check's scan returns to request
\* q's task, and the task is preempted before its next statement.  In
\* "resolve" this is add_new: resolve_username has answered Some(chat).
lock_request(q) ==
  /\ pc[q] \in {"resolve", "evict", "scan"}
  /\ pc[q] = "resolve" =>
       \E d \in Directory : d.username = to_lowercase(req[q].bot_username)
  /\ lock = Free
  /\ lock' = Held(q, pc[q])
  /\ UNCHANGED << now, PINGED_BOTS, origin, reqVars, listenerVars >>

\* self.lock() of new_res returns to the task of update u.
lock_update(u) ==
  /\ tasks[u] > 0
  /\ u.kind = "NewMessage" /\ u.sender # 0
  /\ lock = Free
  /\ lock' = Held(UpdateTask(u), "new_res")
  /\ UNCHANGED << now, PINGED_BOTS, origin, reqVars, listenerVars >>

\* history: when, in request q's course, a mark for its telegram_id lands
Phase(q) ==
  IF pc[q] = "send" \/ (pc[q] = "sleep" /\ now <= deadline[q]) THEN "grace"
  ELSE IF pc[q] \in {"sleep", "evict"} THEN "late"
  ELSE "gap"

Marked(h, sender) ==
  [q \in Queries |->
     IF telegram_id[q] = sender /\ pc[q] \in {"send", "sleep", "evict", "scan"}
       THEN [h[q] EXCEPT !.marks = @ \cup {Phase(q)}]
       ELSE h[q]]

\* update_handler marking the sender of any kind of update
update_handler_any_kind(u) ==
  /\ tasks[u] > 0
  /\ tasks' = [tasks EXCEPT ![u] = @ - 1]
  /\ IF u.sender # 0
       THEN /\ PINGED_BOTS' = new_res(PINGED_BOTS, u.sender)
            /\ hist' = Marked(hist, u.sender)
            /\ CriticalSection(UpdateTask(u), "new_res")
       ELSE UNCHANGED << PINGED_BOTS, hist, lock >>
  /\ UNCHANGED << now, origin, pc, req, telegram_id, deadline, dead_time, res,
                  loop, received, ctrl_c >>

\* A spawned task runs update_handler (superbot.rs 74-80).
update_handler(u) ==
  /\ tasks[u] > 0
  /\ tasks' = [tasks EXCEPT ![u] = @ - 1]
  /\ IF u.kind = "NewMessage" /\ u.sender # 0
       THEN /\ PINGED_BOTS' = new_res(PINGED_BOTS, u.sender)
            /\ hist' = Marked(hist, u.sender)
            /\ CriticalSection(UpdateTask(u), "new_res")
       ELSE UNCHANGED << PINGED_BOTS, hist, lock >>
  /\ UNCHANGED << now, origin, pc, req, telegram_id, deadline, dead_time, res,
                  loop, received, ctrl_c >>

\* -------------------------------------------------------------------- clock
Tick ==
  /\ now < MaxTime
  /\ now' = IF now = QuietFrom THEN QuietTo ELSE now + 1
  /\ UNCHANGED << PINGED_BOTS, origin, reqVars, listenerVars, lock >>

Next ==
  \/ \E q \in Queries : auth(q)
  \/ \E q \in Queries : ping(q)
  \/ \E q \in Queries : resolve_some(q)
  \/ \E q \in Queries : resolve_fails(q)
  \/ \E q \in Queries : send_ok(q)
  \/ \E q \in Queries : send_fails(q)
  \/ \E q \in Queries : wake(q)
  \/ \E q \in Queries : evict(q)
  \/ \E q \in Queries : scan(q)
  \/ \E u \in Updates : next_update(u)
  \/ \E u \in Updates : update_handler(u)
  \/ Tick

Spec == Init /\ [][Next]_vars

\* The behaviours in which the update stream fails or the process is
\* interrupted as well.
NextShutdown ==
  \/ Next
  \/ next_update_refuted
  \/ interrupt
  \/ break

SpecShutdown == Init /\ [][NextShutdown]_vars

\* The behaviours in which a task can be preempted while it holds the Mutex.
NextLock ==
  \/ Next
  \/ \E q \in Queries : lock_request(q)
  \/ \E u \in Updates : lock_update(u)

\* A task that can run does run: no behaviour stops while a step is possible.
SpecLock == Init /\ [][NextLock]_vars /\ WF_vars(NextLock)

\* The same, with handler's task run once its ctrl_c branch is ready.
SpecShutdownFair == SpecShutdown /\ WF_vars(break)

\* ------------------------------------------------------------------ claims
Done(q) == pc[q] = "done"

\* the request passed auth: ping has run
Handled(q) == Done(q) /\ TokenPasses(req[q].header)

\* the configured allow-list holds the lower-cased handle
Listed(q) ==
  \E i \in DOMAIN app_state.bots : app_state.bots[i] = to_lowercase(req[q].bot_username)

Pushed(q) == \E i \in DOMAIN origin : origin[i] = q

Body(q) == res[q].body[1]

NothingDone(q) ==
  /\ hist[q].resolve = 0
  /\ hist[q].add_new = 0
  /\ hist[q].send = 0
  /\ hist[q].sleep = 0
  /\ hist[q].check = 0
  /\ ~ Pushed(q)

\* C1: a query whose lower-cased handle is not in the allow-list is answered
\* 400 "not authorized", and ping made no resolve_username, send_message, sleep
\* or check call and pushed no record.
C1_UnlistedRefused ==
  \A q \in Queries :
    (Handled(q) /\ ~ Listed(q)) =>
      /\ res[q].status_code = BAD_REQUEST
      /\ res[q].body = << [message |-> "Is not authorized to check the status of this bot",
                          status |-> FALSE] >>
      /\ NothingDone(q)

\* C1 witness: an unlisted handle was refused while the other request's
\* record sits in the list.
C1_Witness ==
  \E q \in Queries :
    /\ Handled(q) /\ ~ Listed(q)
    /\ res[q].status_code = BAD_REQUEST
    /\ PINGED_BOTS # <<>>

\* C5: a handled query has one body and one status code, fixed by its outcome:
\* 200 exactly when check found a reply, 404 when check found none, 400 for an
\* unlisted handle, 500 when resolve_username or send_message failed; the
\* body's status is true exactly for 200.
C5_OutcomeToResponse ==
  \A q \in Queries :
    Handled(q) =>
      /\ Len(res[q].body) = 1
      /\ res[q].status_code \in {OK, NOT_FOUND, BAD_REQUEST, INTERNAL_SERVER_ERROR}
      /\ (res[q].status_code = BAD_REQUEST) <=> ~ Listed(q)
      /\ (res[q].status_code = INTERNAL_SERVER_ERROR) <=> hist[q].failed # ""
      /\ (res[q].status_code = OK) <=> (hist[q].check = 1 /\ hist[q].found)
      /\ (res[q].status_code = NOT_FOUND) <=> (hist[q].check = 1 /\ ~ hist[q].found)
      /\ Body(q).status <=> (res[q].status_code = OK)
      /\ (Body(q).message = "Alive") <=> (res[q].status_code = OK)

\* C5 witness: one request answered 200 and another 404.
C5_Witness ==
  \E q, p \in Queries :
    /\ Handled(q) /\ res[q].status_code = OK /\ Body(q).status
    /\ Handled(p) /\ res[p].status_code = NOT_FOUND /\ ~ Body(p).status

\* C6: once resolve_username or send_message has failed the query is over with
\* the 500 answer: no sleep, no check, one resolve_username call, at most one
\* send_message call, and a body is written.
C6_FailureAborts ==
  \A q \in Queries :
    hist[q].failed # "" =>
      /\ Done(q)
      /\ res[q].status_code = INTERNAL_SERVER_ERROR
      /\ res[q].body = << [message |-> "Cant send to the bot", status |-> FALSE] >>
      /\ hist[q].sleep = 0
      /\ hist[q].check = 0
      /\ hist[q].resolve = 1
      /\ hist[q].send <= 1
      /\ (hist[q].failed = "resolve" => hist[q].send = 0 /\ hist[q].add_new = 0)

\* C6 witness: a send_message failure and a resolve_username failure, both
\* answered 500.
C6_Witness ==
  \E q, p \in Queries :
    /\ hist[q].failed = "send" /\ res[q].status_code = INTERNAL_SERVER_ERROR
    /\ hist[p].failed = "resolve" /\ res[p].status_code = INTERNAL_SERVER_ERROR

\* C7: a request whose Authorization header is missing, is not text, or has a
\* digest outside the token list never reaches ping: it is over after auth,
\* with no resolve_username, send_message, sleep or check call and no record
\* pushed.
C7_RejectedBeforePing ==
  \A q \in Queries :
    (pc[q] # "new" /\ ~ TokenPasses(req[q].header)) =>
      /\ Done(q)
      /\ req[q].bot_username = <<>>
      /\ NothingDone(q)

\* C7 witness: a request with an undecodable header is over while the list
\* holds the record of an accepted one.
C7_Witness ==
  \E q \in Queries :
    /\ Done(q)
    /\ req[q].header.kind = "opaque"
    /\ PINGED_BOTS # <<>>

\* the query slept, woke and read the list
Checked(q) == Done(q) /\ hist[q].check = 1

\* C2: a query that saw no mark for its agent between its add_new and the end
\* of its sleep answers 404, whatever older records of the agent the list
\* holds.
C2_NoReplyInGrace ==
  \A q \in Queries :
    (Checked(q) /\ "grace" \notin hist[q].marks) => res[q].status_code = NOT_FOUND

\* C3, as claimed: a mark for the agent after the query's add_new and before
\* its clear_outdead filters, with the record not older than 60 s when check
\* is called, makes the query answer 200.
C3_AsClaimed ==
  \A q \in Queries :
    ( /\ Checked(q)
      /\ hist[q].marks \cap {"grace", "late"} # {}
      /\ ~ hist[q].staleAtCall ) => res[q].status_code = OK

\* C3, amended: a mark for the agent after the query's add_new and before
\* check scans the list, with the record less than 60 s old at that scan, makes
\* the query answer 200.
C3_MarkedIsAlive ==
  \A q \in Queries :
    ( /\ Checked(q)
      /\ hist[q].marks # {}
      /\ hist[q].youngAtScan ) => res[q].status_code = OK

\* C3 witness: a query marked during its sleep, its record young at the scan,
\* answered 200.
C3_Witness ==
  \E q \in Queries :
    /\ Checked(q)
    /\ hist[q].marks = {"grace"}
    /\ hist[q].youngAtScan
    /\ ~ hist[q].pre
    /\ res[q].status_code = OK

\* C4: a query answers 200 only on a mark that came no later than the end of
\* its sleep: one seen during the sleep, or one already in the list at its
\* add_new.  A mark after the deadline never turns the answer into 200.
C4_LateNeverCounts ==
  \A q \in Queries :
    (Checked(q) /\ res[q].status_code = OK) =>
      ("grace" \in hist[q].marks \/ hist[q].pre)

\* C8: is_response is false in a pushed record and, in a record that stays in
\* the list, never goes from true to false.
C8_ResponseMonotonic ==
  [][ /\ \A i \in DOMAIN PINGED_BOTS, j \in DOMAIN PINGED_BOTS' :
           (origin[i] = origin'[j] /\ PINGED_BOTS[i].is_response) =>
             PINGED_BOTS'[j].is_response
      /\ \A j \in DOMAIN PINGED_BOTS' :
           (\A i \in DOMAIN origin : origin[i] # origin'[j]) =>
             ~ PINGED_BOTS'[j].is_response ]_vars

\* C8 witness: a marked record is in the list with a later record of the same
\* agent, after a check has filtered the list.
C8_Witness ==
  /\ Len(PINGED_BOTS) = 2
  /\ PINGED_BOTS[1].is_response
  /\ PINGED_BOTS[1].telegram_id = PINGED_BOTS[2].telegram_id
  /\ \E q \in Queries : Checked(q)

\* the timestamp clear_outdead read for request q
ReadAt(q) == dead_time[q] + DeadAfter

EvictStep(q) == pc[q] = "evict" /\ pc'[q] = "scan"

\* what clear_outdead does to the list when records of age Limit or more are
\* the ones to go: those go, the others stay as they are and in order, nothing
\* is added, and a second pass with the same dead_time changes nothing
Evicts(q, going(_)) ==
  /\ Len(PINGED_BOTS') = Len(origin')
  /\ \A i \in DOMAIN PINGED_BOTS :
       IF going(ReadAt(q) - PINGED_BOTS[i].ping_in)
         THEN \A j \in DOMAIN origin' : origin'[j] # origin[i]
         ELSE \E j \in DOMAIN origin' :
                origin'[j] = origin[i] /\ PINGED_BOTS'[j] = PINGED_BOTS[i]
  /\ \A j \in DOMAIN origin' : \E i \in DOMAIN origin : origin[i] = origin'[j]
  /\ \A i1, i2 \in DOMAIN origin, j1, j2 \in DOMAIN origin' :
       (origin[i1] = origin'[j1] /\ origin[i2] = origin'[j2] /\ i1 < i2) => j1 < j2
  /\ clear_outdead(PINGED_BOTS', dead_time[q]) = PINGED_BOTS'

OlderThanLimit(age) == age > DeadAfter
AtLeastLimit(age) == age >= DeadAfter

\* C9, as claimed: clear_outdead removes the records older than 60 s and keeps
\* those of age 60 s or less.
C9_AsClaimed ==
  [][ \A q \in Queries : EvictStep(q) => Evicts(q, OlderThanLimit) ]_vars

\* C9, amended: clear_outdead removes the records whose age in whole seconds
\* is 60 or more and keeps the younger ones unchanged and in order; a second
\* pass at the same instant changes nothing.
C9_EvictsFromSixty ==
  [][ \A q \in Queries : EvictStep(q) => Evicts(q, AtLeastLimit) ]_vars

\* C9 witness: a check has filtered the list with dead_time 0 and the list
\* holds a record pushed at second 1: at second 60 the record pushed at second
\* 0 went and the one of age 59 stayed.
C9_Witness ==
  \E q \in Queries :
    /\ pc[q] = "scan"
    /\ dead_time[q] = 0
    /\ hist[q].pingAt = 0
    /\ ~ Pushed(q)
    /\ Len(PINGED_BOTS) = 1
    /\ PINGED_BOTS[1].ping_in = 1

IsRegister == \E q \in Queries : pc[q] = "resolve" /\ pc'[q] = "send"
IsMark ==
  \E u \in Updates :
    tasks'[u] < tasks[u] /\ u.kind = "NewMessage" /\ u.sender # 0
IsResolvedEnds == \E q \in Queries : pc[q] = "scan" /\ pc'[q] = "done"

\* C11: check is one critical section: between a query's clear_outdead and its
\* scan no record is pushed and no record is marked by another task.
C11_CheckIndivisible ==
  [][ \A q \in Queries :
        (pc[q] = "scan" /\ pc'[q] = "scan") =>
          /\ Len(PINGED_BOTS') <= Len(PINGED_BOTS)
          /\ \A i \in DOMAIN origin, j \in DOMAIN origin' :
               origin[i] = origin'[j] =>
                 PINGED_BOTS'[j].is_response = PINGED_BOTS[i].is_response ]_vars

\* no record of the list is older than 60 s
NoOldRecord ==
  \A i \in DOMAIN PINGED_BOTS : now - PINGED_BOTS[i].ping_in <= DeadAfter

\* C12: right after an add_new, a new_res or a check the list holds no record
\* older than 60 s.
C12_SweepOnEveryAccess ==
  [][ (IsRegister \/ IsMark \/ IsResolvedEnds) => NoOldRecord' ]_vars

\* The behaviours in which a task that can run does run and the clock goes on.
SpecFair == Spec /\ WF_vars(Next)

\* request q's record is in the list and older than 60 s
OldRecordOf(q) ==
  \E i \in DOMAIN origin :
    origin[i] = q /\ now - PINGED_BOTS[i].ping_in > DeadAfter

\* C13: a record that has become older than 60 s is removed in the end.
C13_EventuallyEvicted ==
  \A q \in Queries : OldRecordOf(q) ~> ~ Pushed(q)

\* C14: as long as the process has not been interrupted the handler is
\* receiving updates, also after next_update has yielded Err or Ok(None).
C14_KeepsReceiving == ctrl_c \/ loop = "select"

Resolved(q) ==
  \/ pc[q] \in {"send", "sleep", "evict", "scan"}
  \/ Done(q) /\ (hist[q].failed = "send" \/ hist[q].check = 1)

\* C16: records are pushed by send_start alone, one per request whose handle
\* resolved, unresolved and stamped with the current second; send_message is
\* called with the record in the list, and the calls of a request come in the
\* order resolve_username, add_new, send_message, sleep, check.
C16_RegisteredBeforeDispatch ==
  /\ [] \A q \in Queries :
          /\ hist[q].add_new = (IF Resolved(q) THEN 1 ELSE 0)
          /\ Cardinality({ i \in DOMAIN origin : origin[i] = q }) <= hist[q].add_new
          /\ hist[q].send = hist[q].add_new
          /\ hist[q].add_new <= hist[q].resolve
          /\ hist[q].sleep <= hist[q].send
          /\ hist[q].check <= hist[q].sleep
          /\ hist[q].resolve <= 1
  /\ [][ /\ Len(PINGED_BOTS') > Len(PINGED_BOTS) =>
              \E q \in Queries :
                /\ pc[q] = "resolve" /\ pc'[q] = "send"
                /\ PINGED_BOTS' =
                     Append(PINGED_BOTS, [telegram_id |-> telegram_id'[q],
                                          ping_in |-> now,
                                          is_response |-> FALSE])
                /\ origin' = Append(origin, q)
                /\ \E d \in Directory :
                     /\ d.username = to_lowercase(req[q].bot_username)
                     /\ d.id = telegram_id'[q]
         /\ \A q \in Queries :
              hist'[q].send > hist[q].send =>
                /\ Len(PINGED_BOTS') > 0
                /\ origin'[Len(origin')] = q
                /\ PINGED_BOTS'[Len(PINGED_BOTS')].telegram_id = telegram_id'[q]
                /\ ~ PINGED_BOTS'[Len(PINGED_BOTS')].is_response ]_vars

\* C16 witness: a request asleep after one add_new and one send_message, its
\* record in the list behind the record of the other request.
C16_Witness ==
  \E q \in Queries :
    /\ pc[q] = "sleep"
    /\ hist[q].add_new = 1 /\ hist[q].send = 1
    /\ Len(PINGED_BOTS) = 2
    /\ origin[2] = q

\* C17: new_res marks every record of the sender and changes nothing else: the
\* length, the order, every ping_in and telegram_id stay, the records of other
\* senders stay as they are, with no record of the sender the list is
\* unchanged, and a second new_res of the same sender changes nothing.
C17_MarkFrame ==
  [][ \A u \in Updates :
        (tasks'[u] < tasks[u] /\ u.kind = "NewMessage" /\ u.sender # 0) =>
          /\ Len(PINGED_BOTS') = Len(PINGED_BOTS)
          /\ origin' = origin
          /\ \A i \in DOMAIN PINGED_BOTS :
               /\ PINGED_BOTS'[i].telegram_id = PINGED_BOTS[i].telegram_id
               /\ PINGED_BOTS'[i].ping_in = PINGED_BOTS[i].ping_in
               /\ PINGED_BOTS'[i].is_response =
                    (PINGED_BOTS[i].is_response \/ PINGED_BOTS[i].telegram_id = u.sender)
          /\ (\A i \in DOMAIN PINGED_BOTS : PINGED_BOTS[i].telegram_id # u.sender) =>
               PINGED_BOTS' = PINGED_BOTS
          /\ new_res(PINGED_BOTS', u.sender) = PINGED_BOTS' ]_vars

\* C17 witness: the one update has been handled and the list holds a marked
\* record before an unmarked record of another sender, pushed a second apart.
C17_Witness ==
  /\ received = 1
  /\ \A u \in Updates : tasks[u] = 0
  /\ Len(PINGED_BOTS) = 2
  /\ PINGED_BOTS[1].is_response
  /\ ~ PINGED_BOTS[2].is_response
  /\ PINGED_BOTS[1].telegram_id # PINGED_BOTS[2].telegram_id
  /\ PINGED_BOTS[1].ping_in < PINGED_BOTS[2].ping_in

\* C18: a request refused by auth carries the status code of the message
\* written for it: 403 for a missing header or an unknown token, 400 for a
\* header that is not text.
C18_RefusalStatus ==
  \A q \in Queries :
    (Done(q) /\ ~ TokenPasses(req[q].header)) =>
      /\ res[q].status_code = AuthRefusal(req[q].header).status_code
      /\ res[q].status_code =
           (IF req[q].header.kind = "opaque" THEN BAD_REQUEST ELSE FORBIDDEN)

\* C19: a query answers 200 only on a record of its agent that is marked and
\* was pushed less than 60 s before the timestamp its check read; a record is
\* unmarked when pushed, and it becomes marked only in a step of update_handler
\* on a NewMessage update whose sender is the record's telegram_id.
C19_AliveIsSound ==
  [][ /\ \A q \in Queries :
           (pc[q] = "scan" /\ pc'[q] = "done" /\ res'[q].status_code = OK) =>
             \E i \in DOMAIN PINGED_BOTS :
               /\ PINGED_BOTS[i].telegram_id = telegram_id[q]
               /\ PINGED_BOTS[i].is_response
               /\ ReadAt(q) - PINGED_BOTS[i].ping_in < DeadAfter
      /\ \A i \in DOMAIN origin, j \in DOMAIN origin' :
           ( /\ origin[i] = origin'[j]
             /\ ~ PINGED_BOTS[i].is_response
             /\ PINGED_BOTS'[j].is_response ) =>
             \E u \in Updates :
               /\ tasks'[u] < tasks[u]
               /\ u.kind = "NewMessage"
               /\ u.sender = PINGED_BOTS[i].telegram_id
      /\ \A j \in DOMAIN origin' :
           (\A i \in DOMAIN origin : origin[i] # origin'[j]) =>
             ~ PINGED_BOTS'[j].is_response ]_vars

\* C19 witness: a query answered 200 on a mark that came during its sleep,
\* with no marked record at its add_new, while the list holds an unmarked
\* record of another agent.
C19_Witness ==
  \E q \in Queries :
    /\ Checked(q)
    /\ res[q].status_code = OK
    /\ hist[q].marks = {"grace"}
    /\ ~ hist[q].pre
    /\ Len(PINGED_BOTS) = 2
    /\ PINGED_BOTS[1].telegram_id # PINGED_BOTS[2].telegram_id
    /\ \E i \in 1..2 : ~ PINGED_BOTS[i].is_response

\* the calls in which a request's task locks the Mutex
LockingCalls == {"resolve", "evict", "scan"}

\* no call on PINGED_BOTS has started and not ended: the Mutex is unlocked, no
\* request is inside check, no update's task is left to run
NoCallPending ==
  /\ lock = Free
  /\ \A q \in Queries : pc[q] \notin {"evict", "scan"}
  /\ \A u \in Updates : tasks[u] = 0

\* C20: the task that holds the Mutex is inside the call it locked in, so it
\* is not asleep, not awaiting send_message and not locking again; the
\* listener's loop never holds it; and every started clear_outdead, scan and
\* new_res ends: from some point on no call is pending and the Mutex is
\* unlocked.
C20_NoDeadlock ==
  /\ [] ( /\ \A q \in Queries :
               lock.holder = q => (lock.at = pc[q] /\ pc[q] \in LockingCalls)
          /\ lock.holder \in Queries \cup {0} \cup { UpdateTask(u) : u \in Updates }
          /\ \A u \in Updates :
               lock.holder = UpdateTask(u) =>
                 /\ lock.at = "new_res"
                 /\ \E v \in Updates :
                      v.kind = "NewMessage" /\ v.sender = u.sender /\ tasks[v] > 0 )
  /\ <>[] NoCallPending

\* C20 witness: a request waits to lock for its scan while the task of an
\* update holds the Mutex, and the other request is asleep.
C20_Witness ==
  \E q, p \in Queries, u \in Updates :
    /\ pc[q] = "scan"
    /\ lock = Held(UpdateTask(u), "new_res")
    /\ pc[p] = "sleep"

====
